---- MODULE Spec2Model ----
(***************************************************************************)
(* The credential pool of commitscrapper.py (class TokenManager) driven by *)
(* concurrent threads.  Every thread is either idle or inside one call of  *)
(* a TokenManager method; the pool's threading.Lock is an explicit         *)
(* variable, so a thread that waits for the lock is a state of the model.  *)
(* On top of the pool: GitHubClient._make_request, the retry loop every      *)
(* worker runs around one network call; and main, which hands the           *)
(* repositories to a pool of workers and collects what they return.          *)
(***************************************************************************)
EXTENDS Integers, Sequences, FiniteSets, TLC

\* ---------------------------------------------------------------- bounds
MaxTokens == 2
NumThreads == 2
MaxTime == 1
MaxRequests == 2
\* _make_request calls one worker makes
MaxInvocations == 1
\* repositories main is given
NumTasks == 2
\* MAX_WORKERS, the size main's ThreadPoolExecutor is capped at
MaxWorkers == 1
\* checks of the watchdog that are followed
MaxChecks == 21

\* ------------------------------------------------------ program constants
LowWaterMark == 10
Ceiling == 5000
\* max_retries of _make_request
MaxRetries == 5
\* retry_delays of _make_request, in seconds
RetryDelays == <<2, 5, 10, 20, 30>>
\* checks without progress after which the watchdog sends its alert
HangLimit == 10

Threads == 1 .. NumThreads
NoThread == 0
\* the thread that runs main()
MainThread == NumThreads + 1
\* the repositories, in the order main submits them
Tasks == 1 .. NumTasks
NoTask == 0
\* values of the X-RateLimit-Remaining header a response may carry
HeaderRemaining == {0, LowWaterMark, LowWaterMark + 1}
\* value of the X-RateLimit-Reset header: the quota window ends at MaxTime
HeaderReset == {MaxTime}
\* reset_time is None (the empty sequence) or a one-element sequence <<ts>>
None == << >>

VARIABLES
    tokens,             \* TokenManager.tokens: the list of loaded tokens
    remaining,          \* token_stats[token]["remaining"]
    reset_time,         \* token_stats[token]["reset_time"]
    requests,           \* token_stats[token]["requests"]
    current_index,      \* TokenManager.current_index
    global_sleep_mode,  \* TokenManager.global_sleep_mode
    lock,               \* TokenManager.lock: NoThread, or the thread holding it
    now,                \* datetime.now()
    pc,                 \* per thread: the statement it is at
    ret,                \* what the call that returned last handed to its caller
    mr_token,           \* per thread: the local "token" of _make_request
    attempt,            \* per thread: the loop variable "attempt" of _make_request
    pending,            \* per thread: a response whose headers wait for the lock
    out,                \* per thread: why _make_request returned what it returned
    calls,              \* per thread: session.request calls of the current invocation
    gets,               \* per thread: get_token calls of the current invocation
    only503,            \* per thread: every response of the invocation was a 503
    invocations,        \* per thread: _make_request calls made so far
    backoff,            \* per thread: seconds slept in time.sleep(retry_delays[attempt])
                        \* after the last network call, 0 if it was not reached
    mpc,                \* main: the statement it is at
    status,             \* per repository: where its future stands
    task,               \* per worker: the repository it is processing
    taken_asleep,       \* the repositories taken by a worker while global_sleep_mode
                        \* was set, and processed without it being cleared
    processed_count,    \* main's processed_count
    error_count,        \* main's error_count
    all_results,        \* main's all_results: the repositories whose results it holds
    wpc,                \* watchdog_thread: the statement it is at
    last_count,         \* watchdog_thread's last_count
    hang_checks,        \* watchdog_thread's hang_checks
    stop_event,         \* the Event stop_watchdog
    checks,             \* what the watchdog's checks read and did, oldest first
    enabled,            \* DiscordNotifier.enabled
    sent                \* how the last notifier.send call ended

\* the locals of _make_request and the history kept about one invocation
request == <<mr_token, attempt, pending, out, calls, gets, only503, invocations, backoff>>
\* the state of main and of its executor
dispatch == <<mpc, status, task, taken_asleep, processed_count, error_count, all_results>>
\* the watchdog thread, the Event that stops it and the notifier
watchdog == <<wpc, last_count, hang_checks, stop_event, checks, enabled, sent>>
\* everything the TokenManager methods do not touch
ext == <<request, dispatch, watchdog>>
vars == <<tokens, remaining, reset_time, requests, current_index, global_sleep_mode,
          lock, now, pc, ret, request, dispatch, watchdog>>
pool == <<tokens, remaining, reset_time, requests, current_index, global_sleep_mode>>

\* A token is named by the number of the GITHUB_TOKEN_<i> slot it fills in the
\* list; tokens[i] of the source (0-based) is TokenAt(i).
NumTokens == Len(tokens)
TokenAt(i) == tokens[i + 1]
TokenIds == {tokens[i] : i \in 1 .. NumTokens}
NoToken == 0

NoRet == [op |-> "none", tok |-> NoToken, path |-> "none", val |-> FALSE]

\* What session.request (line 413) can produce: a response, described by its
\* status code, whether its text contains "rate limit", and its
\* X-RateLimit-Remaining / X-RateLimit-Reset headers if it carries them; or one
\* of the exceptions requests.exceptions.Timeout and ConnectionError.
StatusCodes == {200, 403, 404, 429, 500, 503}
\* 403 and 429 come with or without the words "rate limit" in their text
Texts(st) == IF st \in {403, 429} THEN BOOLEAN ELSE {FALSE}
Responses ==
    {[kind |-> "response", status |-> x[1], rate_limit_text |-> x[2], headers |-> FALSE,
      remaining |-> 0, reset |-> 0] :
        x \in {y \in StatusCodes \X BOOLEAN : y[2] \in Texts(y[1])}}
    \cup
    {[kind |-> "response", status |-> x[1], rate_limit_text |-> x[2], headers |-> TRUE,
      remaining |-> rem, reset |-> ts] :
        x \in {y \in StatusCodes \X BOOLEAN : y[2] \in Texts(y[1])},
        rem \in HeaderRemaining, ts \in HeaderReset}
Exceptions ==
    {[kind |-> k, status |-> 0, rate_limit_text |-> FALSE, headers |-> FALSE,
      remaining |-> 0, reset |-> 0] : k \in {"Timeout", "ConnectionError"}}
NoResponse ==
    [kind |-> "none", status |-> 0, rate_limit_text |-> FALSE, headers |-> FALSE,
     remaining |-> 0, reset |-> 0]

\* datetime.fromtimestamp(reset_timestamp): the header's epoch seconds as a
\* point of the clock that datetime.now() reads
FromTimestamp(ts) == << ts >>

\* -------------------------------------------------- _is_token_available
\* Variants of _is_token_available with one slip each.
\* The reset time gates availability:
IsTokenAvailableResetGate(token) ==
    /\ remaining[token] > LowWaterMark
    /\ reset_time[token] = None \/ now >= reset_time[token][1]
\* The second return forgets the quota:
IsTokenAvailableElseTrue(token) ==
    IF reset_time[token] = None \/ now >= reset_time[token][1]
    THEN remaining[token] > LowWaterMark
    ELSE TRUE
\* The reserve is one call too large:
IsTokenAvailableHighMark(token) == remaining[token] > LowWaterMark + 1

IsTokenAvailable(token) ==
    IF reset_time[token] = None \/ now >= reset_time[token][1]
    THEN remaining[token] > LowWaterMark
    ELSE remaining[token] > LowWaterMark

\* -------------------------------------------------------------- get_token
\* First pass (lines 210-221): at most len(tokens) probes from the cursor i.
\* tokens[i] raises IndexError when i is past the end of the list.
\* Variants of the first pass with one slip each.
\* The cursor is advanced without "% len(self.tokens)":
RECURSIVE PrimaryPassNoWrap(_, _)
PrimaryPassNoWrap(i, left) ==
    IF left = 0
    THEN [found |-> FALSE, raised |-> FALSE, tok |-> NoToken, idx |-> i]
    ELSE IF i >= NumTokens
    THEN [found |-> FALSE, raised |-> TRUE, tok |-> NoToken, idx |-> i]
    ELSE IF IsTokenAvailable(TokenAt(i))
    THEN [found |-> TRUE, raised |-> FALSE, tok |-> TokenAt(i), idx |-> i + 1]
    ELSE PrimaryPassNoWrap(i + 1, left - 1)
\* The token at the cursor is handed out unchecked:
PrimaryPassNoCheck(i, left) ==
    IF left = 0
    THEN [found |-> FALSE, raised |-> FALSE, tok |-> NoToken, idx |-> i]
    ELSE [found |-> TRUE, raised |-> FALSE, tok |-> TokenAt(i),
          idx |-> (i + 1) % NumTokens]
\* The cursor stays on the token that is handed out:
RECURSIVE PrimaryPassNoAdvance(_, _)
PrimaryPassNoAdvance(i, left) ==
    IF left = 0
    THEN [found |-> FALSE, raised |-> FALSE, tok |-> NoToken, idx |-> i]
    ELSE IF i >= NumTokens
    THEN [found |-> FALSE, raised |-> TRUE, tok |-> NoToken, idx |-> i]
    ELSE IF IsTokenAvailable(TokenAt(i))
    THEN [found |-> TRUE, raised |-> FALSE, tok |-> TokenAt(i), idx |-> i]
    ELSE PrimaryPassNoAdvance((i + 1) % NumTokens, left - 1)

\* The cursor wraps one position late, "% (len(self.tokens) + 1)":
RECURSIVE PrimaryPassWrapLate(_, _)
PrimaryPassWrapLate(i, left) ==
    IF left = 0
    THEN [found |-> FALSE, raised |-> FALSE, tok |-> NoToken, idx |-> i]
    ELSE IF i >= NumTokens
    THEN [found |-> FALSE, raised |-> TRUE, tok |-> NoToken, idx |-> i]
    ELSE IF IsTokenAvailable(TokenAt(i))
    THEN [found |-> TRUE, raised |-> FALSE, tok |-> TokenAt(i),
          idx |-> (i + 1) % (NumTokens + 1)]
    ELSE PrimaryPassWrapLate((i + 1) % NumTokens, left - 1)

RECURSIVE PrimaryPass(_, _)
PrimaryPass(i, left) ==
    IF left = 0
    THEN [found |-> FALSE, raised |-> FALSE, tok |-> NoToken, idx |-> i]
    ELSE IF i >= NumTokens
    THEN [found |-> FALSE, raised |-> TRUE, tok |-> NoToken, idx |-> i]
    ELSE IF IsTokenAvailable(TokenAt(i))
    THEN [found |-> TRUE, raised |-> FALSE, tok |-> TokenAt(i),
          idx |-> (i + 1) % NumTokens]
    ELSE PrimaryPass((i + 1) % NumTokens, left - 1)

\* Second pass (lines 225-229): enumerate(self.tokens) from the front.
RECURSIVE BorrowPass(_)
BorrowPass(k) ==
    IF k >= NumTokens
    THEN [found |-> FALSE, tok |-> NoToken]
    ELSE IF IsTokenAvailable(TokenAt(k))
    THEN [found |-> TRUE, tok |-> TokenAt(k)]
    ELSE BorrowPass(k + 1)

\* The outcome of the body of get_token in the current state: the token
\* returned, the path that returned it, the cursor and flag it leaves, and
\* whether it counted a request.
\* Variants of the body of get_token with one slip each.
\* The fallback forgets "self.token_stats[token]["requests"] += 1":
GetTokenResultFallbackUncounted ==
    IF global_sleep_mode
    THEN [tok |-> TokenAt(0), path |-> "sleep", idx |-> current_index,
          flag |-> global_sleep_mode, counted |-> FALSE]
    ELSE LET p == PrimaryPass(current_index, NumTokens)
             b == BorrowPass(0)
         IN  IF p.raised
             THEN [tok |-> NoToken, path |-> "raise", idx |-> p.idx,
                   flag |-> global_sleep_mode, counted |-> FALSE]
             ELSE IF p.found
             THEN [tok |-> p.tok, path |-> "primary", idx |-> p.idx,
                   flag |-> global_sleep_mode, counted |-> TRUE]
             ELSE IF b.found
             THEN [tok |-> b.tok, path |-> "borrow", idx |-> p.idx,
                   flag |-> global_sleep_mode, counted |-> TRUE]
             ELSE [tok |-> TokenAt(0), path |-> "fallback", idx |-> p.idx,
                   flag |-> TRUE, counted |-> FALSE]
\* The fallback forgets "self.global_sleep_mode = True":
GetTokenResultFallbackNoFlag ==
    IF global_sleep_mode
    THEN [tok |-> TokenAt(0), path |-> "sleep", idx |-> current_index,
          flag |-> global_sleep_mode, counted |-> FALSE]
    ELSE LET p == PrimaryPass(current_index, NumTokens)
             b == BorrowPass(0)
         IN  IF p.raised
             THEN [tok |-> NoToken, path |-> "raise", idx |-> p.idx,
                   flag |-> global_sleep_mode, counted |-> FALSE]
             ELSE IF p.found
             THEN [tok |-> p.tok, path |-> "primary", idx |-> p.idx,
                   flag |-> global_sleep_mode, counted |-> TRUE]
             ELSE IF b.found
             THEN [tok |-> b.tok, path |-> "borrow", idx |-> p.idx,
                   flag |-> global_sleep_mode, counted |-> TRUE]
             ELSE [tok |-> TokenAt(0), path |-> "fallback", idx |-> p.idx,
                   flag |-> global_sleep_mode, counted |-> TRUE]

\* The fallback moves the cursor back to the first token:
GetTokenResultFallbackRewinds ==
    IF global_sleep_mode
    THEN [tok |-> TokenAt(0), path |-> "sleep", idx |-> current_index,
          flag |-> global_sleep_mode, counted |-> FALSE]
    ELSE LET p == PrimaryPass(current_index, NumTokens)
             b == BorrowPass(0)
         IN  IF p.raised
             THEN [tok |-> NoToken, path |-> "raise", idx |-> p.idx,
                   flag |-> global_sleep_mode, counted |-> FALSE]
             ELSE IF p.found
             THEN [tok |-> p.tok, path |-> "primary", idx |-> p.idx,
                   flag |-> global_sleep_mode, counted |-> TRUE]
             ELSE IF b.found
             THEN [tok |-> b.tok, path |-> "borrow", idx |-> p.idx,
                   flag |-> global_sleep_mode, counted |-> TRUE]
             ELSE [tok |-> TokenAt(0), path |-> "fallback", idx |-> 0,
                   flag |-> TRUE, counted |-> TRUE]

\* The first pass stops one probe short of the whole list:
GetTokenResultShortScan ==
    IF global_sleep_mode
    THEN [tok |-> TokenAt(0), path |-> "sleep", idx |-> current_index,
          flag |-> global_sleep_mode, counted |-> FALSE]
    ELSE LET p == PrimaryPass(current_index, NumTokens - 1)
             b == BorrowPass(0)
         IN  IF p.raised
             THEN [tok |-> NoToken, path |-> "raise", idx |-> p.idx,
                   flag |-> global_sleep_mode, counted |-> FALSE]
             ELSE IF p.found
             THEN [tok |-> p.tok, path |-> "primary", idx |-> p.idx,
                   flag |-> global_sleep_mode, counted |-> TRUE]
             ELSE IF b.found
             THEN [tok |-> b.tok, path |-> "borrow", idx |-> p.idx,
                   flag |-> global_sleep_mode, counted |-> TRUE]
             ELSE [tok |-> TokenAt(0), path |-> "fallback", idx |-> p.idx,
                   flag |-> TRUE, counted |-> TRUE]

GetTokenResult ==
    IF global_sleep_mode
    THEN [tok |-> TokenAt(0), path |-> "sleep", idx |-> current_index,
          flag |-> global_sleep_mode, counted |-> FALSE]
    ELSE LET p == PrimaryPass(current_index, NumTokens)
             b == BorrowPass(0)
         IN  IF p.raised
             THEN [tok |-> NoToken, path |-> "raise", idx |-> p.idx,
                   flag |-> global_sleep_mode, counted |-> FALSE]
             ELSE IF p.found
             THEN [tok |-> p.tok, path |-> "primary", idx |-> p.idx,
                   flag |-> global_sleep_mode, counted |-> TRUE]
             ELSE IF b.found
             THEN [tok |-> b.tok, path |-> "borrow", idx |-> p.idx,
                   flag |-> global_sleep_mode, counted |-> TRUE]
             ELSE [tok |-> TokenAt(0), path |-> "fallback", idx |-> p.idx,
                   flag |-> TRUE, counted |-> TRUE]

\* sum(stats["requests"] for stats in self.token_stats.values())
TotalRequests ==
    LET RECURSIVE Sum(_)
        Sum(k) == IF k >= NumTokens THEN 0 ELSE requests[TokenAt(k)] + Sum(k + 1)
    IN  Sum(0)

\* ---------------------------------------------------- all_tokens_exhausted
\* Variant with the "return True" inside the loop: only the first token counts.
ExhaustedFromFirstOnly(k) ==
    IF k >= NumTokens THEN TRUE
    ELSE ~IsTokenAvailable(TokenAt(k))

RECURSIVE ExhaustedFrom(_)
ExhaustedFrom(k) ==
    IF k >= NumTokens THEN TRUE
    ELSE IF IsTokenAvailable(TokenAt(k)) THEN FALSE
    ELSE ExhaustedFrom(k + 1)

\* -------------------------------------------------------------- get_stats
AvailableTokens == Cardinality({k \in TokenIds : IsTokenAvailable(k)})

\* TokenManager.__init__ (lines 166-173) after _load_tokens found n >= 1 tokens.
Init ==
    /\ \E n \in 1 .. MaxTokens : tokens = [i \in 1 .. n |-> i]
    /\ remaining = [k \in TokenIds |-> Ceiling]
    /\ reset_time = [k \in TokenIds |-> None]
    /\ requests = [k \in TokenIds |-> 0]
    /\ current_index = 0
    /\ global_sleep_mode = FALSE
    /\ lock = NoThread
    /\ now = 0
    /\ pc = [t \in Threads \cup {MainThread} |-> "idle"]
    /\ ret = NoRet
    /\ mr_token = [t \in Threads |-> NoToken]
    /\ attempt = [t \in Threads |-> 0]
    /\ pending = [t \in Threads |-> NoResponse]
    /\ out = [t \in Threads |-> "none"]
    /\ calls = [t \in Threads |-> 0]
    /\ gets = [t \in Threads |-> 0]
    /\ only503 = [t \in Threads |-> TRUE]
    /\ invocations = [t \in Threads |-> 0]
    /\ backoff = [t \in Threads |-> 0]
    /\ mpc = "m_start"
    /\ status = [f \in Tasks |-> "new"]
    /\ task = [t \in Threads |-> NoTask]
    /\ taken_asleep = {}
    /\ processed_count = 0
    /\ error_count = 0
    /\ all_results = << >>
    /\ wpc = "w_run"
    /\ last_count = 0
    /\ hang_checks = 0
    /\ stop_event = FALSE
    /\ checks = << >>
    /\ enabled = FALSE
    /\ sent = "none"

\* "with self.lock:" as the first statement of a method.  A thread that is not
\* inside any call (pc = "idle") calls the method; if the Lock is free it runs
\* the locked body at once, otherwise it waits at the method's own label until
\* the Lock is free.  threading.Lock is not reentrant: the holder waits too.
Enters(t, label) == pc[t] \in {"idle", label}
Waits(t, label) ==
    /\ lock # NoThread
    /\ pc[t] = "idle"
    /\ pc' = [pc EXCEPT ![t] = label]
    /\ UNCHANGED <<pool, lock, now, ret>>

\* get_token (lines 201-236): the whole body runs with the lock held.
GetToken(t) ==
    /\ Enters(t, "get_token")
    /\ pc[t] = "idle" => TotalRequests < MaxRequests
    /\ IF lock = NoThread
       THEN LET r == GetTokenResult
            IN  /\ current_index' = r.idx
                /\ global_sleep_mode' = r.flag
                /\ requests' = IF r.counted
                               THEN [requests EXCEPT ![r.tok] = @ + 1]
                               ELSE requests
                /\ ret' = [op |-> "get_token", tok |-> r.tok,
                           path |-> r.path, val |-> FALSE]
                /\ pc' = [pc EXCEPT ![t] = "idle"]
                /\ UNCHANGED <<tokens, remaining, reset_time, lock, now>>
       ELSE Waits(t, "get_token")

\* Variant that ends the sleep mode when the report puts the token above the
\* reserve:
UpdateRateLimitClearsFlag(t) ==
    /\ Enters(t, "update_rate_limit")
    /\ IF lock = NoThread
       THEN /\ \E token \in TokenIds, rem \in HeaderRemaining, ts \in HeaderReset :
                  /\ remaining' = [remaining EXCEPT ![token] = rem]
                  /\ global_sleep_mode' = (global_sleep_mode /\ rem <= LowWaterMark)
                  /\ reset_time' = [reset_time EXCEPT ![token] = FromTimestamp(ts)]
            /\ ret' = [op |-> "update_rate_limit", tok |-> NoToken,
                       path |-> "none", val |-> FALSE]
            /\ pc' = [pc EXCEPT ![t] = "idle"]
            /\ UNCHANGED <<tokens, requests, current_index, lock, now>>
       ELSE Waits(t, "update_rate_limit")

\* update_rate_limit (lines 238-242) with the header values of a response
\* (_make_request, lines 417-420).
UpdateRateLimit(t) ==
    /\ Enters(t, "update_rate_limit")
    /\ IF lock = NoThread
       THEN /\ \E token \in TokenIds, rem \in HeaderRemaining, ts \in HeaderReset :
                  /\ remaining' = [remaining EXCEPT ![token] = rem]
                  /\ reset_time' = [reset_time EXCEPT ![token] = FromTimestamp(ts)]
            /\ ret' = [op |-> "update_rate_limit", tok |-> NoToken,
                       path |-> "none", val |-> FALSE]
            /\ pc' = [pc EXCEPT ![t] = "idle"]
            /\ UNCHANGED <<tokens, requests, current_index, global_sleep_mode,
                           lock, now>>
       ELSE Waits(t, "update_rate_limit")

\* get_stats (lines 244-272) called on its own (main, lines 1067 and 1134).
\* Of the dict it returns, ret keeps whether available_tokens = total_tokens.
GetStats(t) ==
    /\ Enters(t, "get_stats")
    /\ IF lock = NoThread
       THEN /\ ret' = [op |-> "get_stats", tok |-> NoToken, path |-> "none",
                       val |-> AvailableTokens = NumTokens]
            /\ pc' = [pc EXCEPT ![t] = "idle"]
            /\ UNCHANGED <<pool, lock, now>>
       ELSE Waits(t, "get_stats")

\* all_tokens_exhausted (lines 274-280).
AllTokensExhausted(t) ==
    /\ Enters(t, "all_tokens_exhausted")
    /\ IF lock = NoThread
       THEN /\ ret' = [op |-> "all_tokens_exhausted", tok |-> NoToken,
                       path |-> "none", val |-> ExhaustedFrom(0)]
            /\ pc' = [pc EXCEPT ![t] = "idle"]
            /\ UNCHANGED <<pool, lock, now>>
       ELSE Waits(t, "all_tokens_exhausted")

\* sleep_and_reset (lines 282-327), one statement group per step.
\*   idle             line 285      the call: unlocked read of the flag
\*   sr_lock          lines 288-294 acquire the lock, second check
\*   sr_get_stats     line 295      self.get_stats() with the lock still held:
\*                                  get_stats acquires the same Lock (line 246)
\*   sr_notify        lines 298-305 notifier.send
\*   sr_sleep         line 309      time.sleep(RATE_LIMIT_SLEEP)
\*   sr_reset         lines 312-319 acquire the lock, reset every token
\*   sr_resume        lines 322-327 notifier.send, return
\* At sr_get_stats the thread asks for the Lock it acquired at sr_lock; the
\* step needs lock = NoThread, as Lock.acquire does, whoever the holder is.
\* Variant with a reentrant lock that is still held after line 295, when
\* notifier.send is called:
SleepAndResetLockKept(t) ==
    CASE pc[t] = "idle" ->
            /\ pc' = [pc EXCEPT ![t] = IF global_sleep_mode THEN "sr_lock" ELSE "idle"]
            /\ ret' = IF global_sleep_mode THEN ret
                     ELSE [op |-> "sleep_and_reset", tok |-> NoToken,
                           path |-> "fast", val |-> FALSE]
            /\ UNCHANGED <<pool, lock, now>>
      [] pc[t] = "sr_lock" ->
            /\ lock = NoThread
            /\ IF global_sleep_mode
               THEN /\ lock' = t
                    /\ pc' = [pc EXCEPT ![t] = "sr_get_stats"]
                    /\ ret' = ret
               ELSE /\ lock' = NoThread
                    /\ pc' = [pc EXCEPT ![t] = "idle"]
                    /\ ret' = [op |-> "sleep_and_reset", tok |-> NoToken,
                               path |-> "recheck", val |-> FALSE]
            /\ UNCHANGED <<pool, now>>
      [] pc[t] = "sr_get_stats" ->
            /\ lock = t
            /\ lock' = t
            /\ pc' = [pc EXCEPT ![t] = "sr_notify"]
            /\ UNCHANGED <<pool, now, ret>>
      [] pc[t] = "sr_notify" ->
            /\ pc' = [pc EXCEPT ![t] = "sr_sleep"]
            /\ UNCHANGED <<pool, lock, now, ret>>
      [] pc[t] = "sr_sleep" ->
            /\ pc' = [pc EXCEPT ![t] = "sr_reset"]
            /\ UNCHANGED <<pool, lock, now, ret>>
      [] pc[t] = "sr_reset" ->
            /\ lock = NoThread
            /\ remaining' = [k \in TokenIds |-> Ceiling]
            /\ reset_time' = [k \in TokenIds |-> None]
            /\ global_sleep_mode' = FALSE
            /\ pc' = [pc EXCEPT ![t] = "sr_resume"]
            /\ UNCHANGED <<tokens, requests, current_index, lock, now, ret>>
      [] pc[t] = "sr_resume" ->
            /\ pc' = [pc EXCEPT ![t] = "idle"]
            /\ ret' = [op |-> "sleep_and_reset", tok |-> NoToken,
                       path |-> "slept", val |-> FALSE]
            /\ UNCHANGED <<pool, lock, now>>
      [] OTHER -> FALSE

\* Variant without the check of line 285: every call goes for the lock:
SleepAndResetNoFastCheck(t) ==
    CASE pc[t] = "idle" ->
            /\ pc' = [pc EXCEPT ![t] = "sr_lock"]
            /\ ret' = ret
            /\ UNCHANGED <<pool, lock, now>>
      [] pc[t] = "sr_lock" ->
            /\ lock = NoThread
            /\ IF global_sleep_mode
               THEN /\ lock' = t
                    /\ pc' = [pc EXCEPT ![t] = "sr_get_stats"]
                    /\ ret' = ret
               ELSE /\ lock' = NoThread
                    /\ pc' = [pc EXCEPT ![t] = "idle"]
                    /\ ret' = [op |-> "sleep_and_reset", tok |-> NoToken,
                               path |-> "recheck", val |-> FALSE]
            /\ UNCHANGED <<pool, now>>
      [] pc[t] = "sr_get_stats" ->
            /\ lock = NoThread
            /\ lock' = NoThread
            /\ pc' = [pc EXCEPT ![t] = "sr_notify"]
            /\ UNCHANGED <<pool, now, ret>>
      [] pc[t] = "sr_notify" ->
            /\ pc' = [pc EXCEPT ![t] = "sr_sleep"]
            /\ UNCHANGED <<pool, lock, now, ret>>
      [] pc[t] = "sr_sleep" ->
            /\ pc' = [pc EXCEPT ![t] = "sr_reset"]
            /\ UNCHANGED <<pool, lock, now, ret>>
      [] pc[t] = "sr_reset" ->
            /\ lock = NoThread
            /\ remaining' = [k \in TokenIds |-> Ceiling]
            /\ reset_time' = [k \in TokenIds |-> None]
            /\ global_sleep_mode' = FALSE
            /\ pc' = [pc EXCEPT ![t] = "sr_resume"]
            /\ UNCHANGED <<tokens, requests, current_index, lock, now, ret>>
      [] pc[t] = "sr_resume" ->
            /\ pc' = [pc EXCEPT ![t] = "idle"]
            /\ ret' = [op |-> "sleep_and_reset", tok |-> NoToken,
                       path |-> "slept", val |-> FALSE]
            /\ UNCHANGED <<pool, lock, now>>
      [] OTHER -> FALSE

SleepAndReset(t) ==
    CASE pc[t] = "idle" ->
            /\ pc' = [pc EXCEPT ![t] = IF global_sleep_mode THEN "sr_lock" ELSE "idle"]
            /\ ret' = IF global_sleep_mode THEN ret
                     ELSE [op |-> "sleep_and_reset", tok |-> NoToken,
                           path |-> "fast", val |-> FALSE]
            /\ UNCHANGED <<pool, lock, now>>
      [] pc[t] = "sr_lock" ->
            /\ lock = NoThread
            /\ IF global_sleep_mode
               THEN /\ lock' = t
                    /\ pc' = [pc EXCEPT ![t] = "sr_get_stats"]
                    /\ ret' = ret
               ELSE /\ lock' = NoThread
                    /\ pc' = [pc EXCEPT ![t] = "idle"]
                    /\ ret' = [op |-> "sleep_and_reset", tok |-> NoToken,
                               path |-> "recheck", val |-> FALSE]
            /\ UNCHANGED <<pool, now>>
      [] pc[t] = "sr_get_stats" ->
            /\ lock = NoThread
            /\ lock' = NoThread
            /\ pc' = [pc EXCEPT ![t] = "sr_notify"]
            /\ UNCHANGED <<pool, now, ret>>
      [] pc[t] = "sr_notify" ->
            /\ pc' = [pc EXCEPT ![t] = "sr_sleep"]
            /\ UNCHANGED <<pool, lock, now, ret>>
      [] pc[t] = "sr_sleep" ->
            /\ pc' = [pc EXCEPT ![t] = "sr_reset"]
            /\ UNCHANGED <<pool, lock, now, ret>>
      [] pc[t] = "sr_reset" ->
            /\ lock = NoThread
            /\ remaining' = [k \in TokenIds |-> Ceiling]
            /\ reset_time' = [k \in TokenIds |-> None]
            /\ global_sleep_mode' = FALSE
            /\ pc' = [pc EXCEPT ![t] = "sr_resume"]
            /\ UNCHANGED <<tokens, requests, current_index, lock, now, ret>>
      [] pc[t] = "sr_resume" ->
            /\ pc' = [pc EXCEPT ![t] = "idle"]
            /\ ret' = [op |-> "sleep_and_reset", tok |-> NoToken,
                       path |-> "slept", val |-> FALSE]
            /\ UNCHANGED <<pool, lock, now>>
      [] OTHER -> FALSE

\* The clock that datetime.now() reads moves on.
Tick ==
    /\ now < MaxTime
    /\ now' = now + 1
    /\ UNCHANGED <<pool, lock, pc, ret>>

\* ---------------------------------------------------------- _make_request
\* GitHubClient._make_request (lines 389-495), one step per statement group
\* that touches the pool or the network:
\*   idle             line 389       the call
\*   mr_check         lines 394-398  loop head, unlocked read of the flag
\*   mr_get_token     line 400       token = self.token_manager.get_token()
\*   mr_request       lines 410-493  sleep(REQUEST_DELAY), session.request,
\*                                   update_rate_limit, classification
\*   mr_update        line 420       update_rate_limit waits for the Lock
\*   mr_rate_limited  line 432       self.token_manager.all_tokens_exhausted()
\* out[t] tells why the call returned: "response" (line 465), "sleep_mode"
\* (398), "all_exhausted" (434), "forbidden" (440), "not_found" (456),
\* "client_error" (461), "transient" (475, 484, 493, 495); during the call it
\* tells what the last attempt met ("rate_limited", "retry").  ret is left to
\* the callers of the TokenManager methods outside _make_request.
MrReturn(t, why) ==
    /\ pc' = [pc EXCEPT ![t] = "idle"]
    /\ out' = [out EXCEPT ![t] = why]
    /\ attempt' = [attempt EXCEPT ![t] = 0]
    /\ mr_token' = [mr_token EXCEPT ![t] = NoToken]

\* Variant of the loop that runs one iteration too many
\* (range(max_retries + 1)):
MrContinueOneMore(t, why) ==
    IF attempt[t] + 1 < MaxRetries + 1
    THEN /\ pc' = [pc EXCEPT ![t] = "mr_check"]
         /\ attempt' = [attempt EXCEPT ![t] = @ + 1]
         /\ out' = [out EXCEPT ![t] = why]
         /\ mr_token' = mr_token
    ELSE MrReturn(t, "transient")

\* "continue": the next iteration of "for attempt in range(max_retries)", or
\* the statements after the loop (lines 494-495) when there is none.
MrContinue(t, why) ==
    IF attempt[t] + 1 < MaxRetries
    THEN /\ pc' = [pc EXCEPT ![t] = "mr_check"]
         /\ attempt' = [attempt EXCEPT ![t] = @ + 1]
         /\ out' = [out EXCEPT ![t] = why]
         /\ mr_token' = mr_token
    ELSE MrReturn(t, "transient")

\* time.sleep(retry_delays[attempt]) (lines 450, 470, 479, 488), or none of
\* them reached (secs = 0).
Slept(t, secs) == backoff' = [backoff EXCEPT ![t] = secs]

\* The except clauses (lines 467-493): sleep and retry unless this was the
\* last attempt.
MrExcept(t) ==
    IF attempt[t] < MaxRetries - 1
    THEN MrContinue(t, "retry") /\ Slept(t, RetryDelays[attempt[t] + 1])
    ELSE MrReturn(t, "transient") /\ Slept(t, 0)

\* The if/elif chain of lines 427-465 over a response, and the except clauses
\* of lines 467-493 over an exception: which branch runs.
\* Variant in which the 404 branch is missing, so that a 404 is met by
\* raise_for_status:
ClassifyNoNotFound(r) ==
    IF r.kind # "response" THEN "exception"
    ELSE IF r.status = 403
    THEN (IF r.rate_limit_text THEN "rate_limit" ELSE "forbidden")
    ELSE IF r.status \in {502, 503, 504} THEN "server_error"
    ELSE IF r.status = 404 THEN "http_error"
    ELSE IF 400 <= r.status /\ r.status < 500 THEN "client_error"
    ELSE IF r.status >= 400 THEN "http_error"
    ELSE "ok"

Classify(r) ==
    IF r.kind # "response" THEN "exception"
    ELSE IF r.status = 403
    THEN (IF r.rate_limit_text THEN "rate_limit" ELSE "forbidden")
    ELSE IF r.status \in {502, 503, 504} THEN "server_error"
    ELSE IF r.status = 404 THEN "not_found"
    ELSE IF 400 <= r.status /\ r.status < 500 THEN "client_error"
    ELSE IF r.status >= 400 THEN "http_error"
    ELSE "ok"

\* Lines 416-465 for the response r, and lines 467-484 for an exception r.
\* raise_for_status (line 464) raises HTTPError, a RequestException, on a
\* status of 400 and above.
\* Variant that passes the headers on only when the status is 200:
MrHandleUpdateOnSuccess(t, r) ==
    /\ IF r.headers /\ r.status = 200
       THEN /\ remaining' = [remaining EXCEPT ![mr_token[t]] = r.remaining]
            /\ reset_time' = [reset_time EXCEPT ![mr_token[t]] = FromTimestamp(r.reset)]
       ELSE UNCHANGED <<remaining, reset_time>>
    /\ pending' = [pending EXCEPT ![t] = NoResponse]
    /\ CASE Classify(r) = "exception" -> MrExcept(t)
         [] Classify(r) = "rate_limit" ->
                /\ pc' = [pc EXCEPT ![t] = "mr_rate_limited"]
                /\ out' = [out EXCEPT ![t] = "rate_limited"]
                /\ Slept(t, 0)
                /\ UNCHANGED <<attempt, mr_token>>
         [] Classify(r) = "forbidden" -> MrReturn(t, "forbidden") /\ Slept(t, 0)
         [] Classify(r) = "server_error" ->
                MrContinue(t, "retry") /\ Slept(t, RetryDelays[attempt[t] + 1])
         [] Classify(r) = "not_found" -> MrReturn(t, "not_found") /\ Slept(t, 0)
         [] Classify(r) = "client_error" -> MrReturn(t, "client_error") /\ Slept(t, 0)
         [] Classify(r) = "http_error" -> MrExcept(t)
         [] Classify(r) = "ok" -> MrReturn(t, "response") /\ Slept(t, 0)
    /\ UNCHANGED <<tokens, requests, current_index, global_sleep_mode, lock, now, ret,
                   gets, invocations>>

MrHandle(t, r) ==
    /\ IF r.headers
       THEN /\ remaining' = [remaining EXCEPT ![mr_token[t]] = r.remaining]
            /\ reset_time' = [reset_time EXCEPT ![mr_token[t]] = FromTimestamp(r.reset)]
       ELSE UNCHANGED <<remaining, reset_time>>
    /\ pending' = [pending EXCEPT ![t] = NoResponse]
    /\ CASE Classify(r) = "exception" -> MrExcept(t)
         [] Classify(r) = "rate_limit" ->
                /\ pc' = [pc EXCEPT ![t] = "mr_rate_limited"]
                /\ out' = [out EXCEPT ![t] = "rate_limited"]
                /\ Slept(t, 0)
                /\ UNCHANGED <<attempt, mr_token>>
         [] Classify(r) = "forbidden" -> MrReturn(t, "forbidden") /\ Slept(t, 0)
         [] Classify(r) = "server_error" ->
                MrContinue(t, "retry") /\ Slept(t, RetryDelays[attempt[t] + 1])
         [] Classify(r) = "not_found" -> MrReturn(t, "not_found") /\ Slept(t, 0)
         [] Classify(r) = "client_error" -> MrReturn(t, "client_error") /\ Slept(t, 0)
         [] Classify(r) = "http_error" -> MrExcept(t)
         [] Classify(r) = "ok" -> MrReturn(t, "response") /\ Slept(t, 0)
    /\ UNCHANGED <<tokens, requests, current_index, global_sleep_mode, lock, now, ret,
                   gets, invocations>>

\* The call (line 389) up to the loop head.
MrCall(t) ==
    /\ pc[t] = "idle"
    /\ pc' = [pc EXCEPT ![t] = "mr_check"]
    /\ mr_token' = [mr_token EXCEPT ![t] = NoToken]
    /\ attempt' = [attempt EXCEPT ![t] = 0]
    /\ out' = [out EXCEPT ![t] = "none"]
    /\ calls' = [calls EXCEPT ![t] = 0]
    /\ gets' = [gets EXCEPT ![t] = 0]
    /\ only503' = [only503 EXCEPT ![t] = TRUE]
    /\ invocations' = [invocations EXCEPT ![t] = @ + 1]
    /\ backoff' = [backoff EXCEPT ![t] = 0]
    /\ UNCHANGED <<pool, lock, now, ret, pending>>

\* Variant that looks at the flag before the first attempt only:
MrCheckFirstAttemptOnly(t) ==
    /\ pc[t] = "mr_check"
    /\ IF global_sleep_mode /\ attempt[t] = 0
       THEN MrReturn(t, "sleep_mode")
       ELSE /\ pc' = [pc EXCEPT ![t] = "mr_get_token"]
            /\ UNCHANGED <<out, attempt, mr_token>>
    /\ UNCHANGED <<pool, lock, now, ret, pending, calls, gets, only503, invocations,
                   backoff>>

\* Lines 396-398: the flag is read without the lock.
MrCheck(t) ==
    /\ pc[t] = "mr_check"
    /\ IF global_sleep_mode
       THEN MrReturn(t, "sleep_mode")
       ELSE /\ pc' = [pc EXCEPT ![t] = "mr_get_token"]
            /\ UNCHANGED <<out, attempt, mr_token>>
    /\ UNCHANGED <<pool, lock, now, ret, pending, calls, gets, only503, invocations,
                   backoff>>

\* Line 400: get_token, whose body runs once the Lock is free.
MrGetToken(t) ==
    /\ pc[t] = "mr_get_token"
    /\ lock = NoThread
    /\ LET r == GetTokenResult
       IN  /\ current_index' = r.idx
           /\ global_sleep_mode' = r.flag
           /\ requests' = IF r.counted
                          THEN [requests EXCEPT ![r.tok] = @ + 1]
                          ELSE requests
           /\ IF r.path = "raise"
              THEN MrReturn(t, "raised")
              ELSE /\ mr_token' = [mr_token EXCEPT ![t] = r.tok]
                   /\ pc' = [pc EXCEPT ![t] = "mr_request"]
                   /\ UNCHANGED <<out, attempt>>
    /\ gets' = [gets EXCEPT ![t] = @ + 1]
    /\ UNCHANGED <<tokens, remaining, reset_time, lock, now, ret, pending, calls, only503,
                   invocations, backoff>>

\* Lines 410-493: the network call and what follows from its outcome.  The
\* response is whatever the server sends; update_rate_limit (line 420) needs
\* the Lock, everything else is local to the thread.
MrReceive(t, r) ==
    /\ calls' = [calls EXCEPT ![t] = @ + 1]
    /\ only503' = [only503 EXCEPT ![t] = @ /\ r.kind = "response" /\ r.status = 503]
    /\ IF r.headers /\ lock # NoThread
       THEN /\ pc' = [pc EXCEPT ![t] = "mr_update"]
            /\ pending' = [pending EXCEPT ![t] = r]
            /\ UNCHANGED <<pool, lock, now, ret, mr_token, attempt, out, gets,
                           invocations, backoff>>
       ELSE MrHandle(t, r)

MrRequest(t) ==
    CASE pc[t] = "mr_request" -> \E r \in Responses \cup Exceptions : MrReceive(t, r)
      [] pc[t] = "mr_update" ->
            /\ lock = NoThread
            /\ MrHandle(t, pending[t])
            /\ UNCHANGED <<calls, only503>>
      [] OTHER -> FALSE

\* Lines 432-438: all_tokens_exhausted, whose body runs once the Lock is free.
MrRateLimited(t) ==
    /\ pc[t] = "mr_rate_limited"
    /\ lock = NoThread
    /\ IF ExhaustedFrom(0)
       THEN MrReturn(t, "all_exhausted")
       ELSE MrContinue(t, "rate_limited")
    /\ UNCHANGED <<pool, lock, now, ret, pending, calls, gets, only503, invocations,
                   backoff>>

\* One step of a thread inside _make_request.
MakeRequest(t) ==
    \/ MrCheck(t)
    \/ MrGetToken(t)
    \/ MrRequest(t)
    \/ MrRateLimited(t)

\* One step of thread t.
Step(t) ==
    \/ GetToken(t) /\ UNCHANGED ext
    \/ UpdateRateLimit(t) /\ UNCHANGED ext
    \/ GetStats(t) /\ UNCHANGED ext
    \/ AllTokensExhausted(t) /\ UNCHANGED ext
    \/ SleepAndReset(t) /\ UNCHANGED ext

Next ==
    \/ \E t \in Threads : Step(t)
    \/ Tick /\ UNCHANGED ext

Spec == Init /\ [][Next]_vars

\* The executor's threads (line 1038):
\* max_workers = min(MAX_WORKERS, len(token_manager.tokens)).
PoolWorkers == 1 .. (IF MaxWorkers < NumTokens THEN MaxWorkers ELSE NumTokens)

\* _make_request in full for the threads of PoolWorkers, against the pool
\* traffic of the other threads: their get_token and update_rate_limit calls.
NextRequests ==
    \/ \E t \in Threads :
          /\ t \in PoolWorkers
          /\ invocations[t] < MaxInvocations
          /\ MrCall(t)
          /\ UNCHANGED <<dispatch, watchdog>>
    \/ \E t \in Threads : t \in PoolWorkers /\ MrCheck(t) /\ UNCHANGED <<dispatch, watchdog>>
    \/ \E t \in Threads : t \in PoolWorkers /\ MrGetToken(t) /\ UNCHANGED <<dispatch, watchdog>>
    \/ \E t \in Threads : t \in PoolWorkers /\ MrRequest(t) /\ UNCHANGED <<dispatch, watchdog>>
    \/ \E t \in Threads : t \in PoolWorkers /\ MrRateLimited(t) /\ UNCHANGED <<dispatch, watchdog>>
    \/ \E t \in Threads : t \notin PoolWorkers /\ GetToken(t) /\ UNCHANGED ext
    \/ \E t \in Threads : t \notin PoolWorkers /\ UpdateRateLimit(t) /\ UNCHANGED ext
SpecRequests == Init /\ [][NextRequests]_vars

\* ------------------------------------------------------------------- main
\* _load_tokens (lines 177-188) raises ValueError when the environment holds
\* no GITHUB_TOKEN_<i>.
\* Variant that returns the empty list instead:
LoadTokensNeverRaises == FALSE

LoadTokensRaises == NumTokens = 0

\* main (lines 979-1189), one step per statement group:
\*   m_start       lines 987-1044   TokenManager(), the executor, the submits
\*   m_wait        lines 1048-1058  as_completed hands over a finished future:
\*                                  processed_count += 1, future.result(),
\*                                  all_results.extend or the except clause
\*   m_progress    lines 1061-1092  the progress log with get_stats(), when due
\*   m_check       lines 1095-1097  global_sleep_mode read, sleep_and_reset called
\*   m_sleep_and_reset              inside sleep_and_reset
\*   m_summary     lines 1128-1134  after the loop: save_results, get_stats()
\*   m_done        lines 1136-1189  the report
\*   m_aborted                      ValueError left main at line 987
\* status[f] follows the future of repository f: "new", "queued" (submitted),
\* "running", "returned" or "raised" (finished), "consumed" (handed over by
\* as_completed).
MainStart ==
    /\ mpc = "m_start"
    /\ IF LoadTokensRaises
       THEN /\ mpc' = "m_aborted"
            /\ status' = status
       ELSE /\ mpc' = "m_wait"
            /\ status' = [f \in Tasks |-> "queued"]
    /\ UNCHANGED <<pool, lock, now, pc, ret, request, task, taken_asleep, processed_count,
                   error_count, all_results, watchdog>>

\* Variants of the loop body with one slip each.
\* "processed_count += 1" sits inside the try, after future.result():
MainNextFutureCountAfterResult ==
    /\ mpc = "m_wait"
    /\ \E f \in Tasks :
          /\ status[f] \in {"returned", "raised"}
          /\ status' = [status EXCEPT ![f] = "consumed"]
          /\ IF status[f] = "raised"
             THEN /\ error_count' = error_count + 1
                  /\ mpc' = "m_wait"
                  /\ UNCHANGED <<all_results, processed_count>>
             ELSE /\ all_results' = Append(all_results, f)
                  /\ processed_count' = processed_count + 1
                  /\ mpc' = "m_progress"
                  /\ error_count' = error_count
    /\ UNCHANGED <<pool, lock, now, pc, ret, request, task, taken_asleep, watchdog>>
\* There is no except clause: the exception leaves main.
MainNextFutureNoExcept ==
    /\ mpc = "m_wait"
    /\ \E f \in Tasks :
          /\ status[f] \in {"returned", "raised"}
          /\ status' = [status EXCEPT ![f] = "consumed"]
          /\ processed_count' = processed_count + 1
          /\ IF status[f] = "raised"
             THEN /\ mpc' = "m_aborted"
                  /\ UNCHANGED <<all_results, error_count>>
             ELSE /\ all_results' = Append(all_results, f)
                  /\ mpc' = "m_progress"
                  /\ error_count' = error_count
    /\ UNCHANGED <<pool, lock, now, pc, ret, request, task, taken_asleep, watchdog>>

\* Lines 1048-1058 and 1099-1119 for one finished future.
MainNextFuture ==
    /\ mpc = "m_wait"
    /\ \E f \in Tasks :
          /\ status[f] \in {"returned", "raised"}
          /\ status' = [status EXCEPT ![f] = "consumed"]
          /\ processed_count' = processed_count + 1
          /\ IF status[f] = "raised"
             THEN /\ error_count' = error_count + 1
                  /\ mpc' = "m_wait"
                  /\ all_results' = all_results
             ELSE /\ all_results' = Append(all_results, f)
                  /\ mpc' = "m_progress"
                  /\ error_count' = error_count
    /\ UNCHANGED <<pool, lock, now, pc, ret, request, task, taken_asleep, watchdog>>

\* as_completed has handed over every future: the loop and the with block
\* end, and main stops the watchdog (lines 1121-1125).
MainLoopEnd ==
    /\ mpc = "m_wait"
    /\ \A f \in Tasks : status[f] = "consumed"
    /\ mpc' = "m_summary"
    /\ stop_event' = TRUE
    /\ UNCHANGED <<pool, lock, now, pc, ret, request, status, task, taken_asleep, processed_count,
                   error_count, all_results, wpc, last_count, hang_checks, checks,
                   enabled, sent>>

\* Lines 1061-1092: the progress log is due every 10 repositories or when 30
\* seconds have passed since the last one; it calls get_stats.
MainProgress ==
    /\ mpc = "m_progress"
    /\ \/ /\ pc[MainThread] = "idle"
          /\ processed_count % 10 # 0
          /\ mpc' = "m_check"
          /\ UNCHANGED <<pool, lock, now, pc, ret>>
       \/ /\ GetStats(MainThread)
          /\ mpc' = IF lock = NoThread THEN "m_check" ELSE mpc
    /\ UNCHANGED <<request, status, task, taken_asleep, processed_count, error_count, all_results,
                   watchdog>>

\* Lines 1095-1097, and line 285 of sleep_and_reset.
MainCheck ==
    /\ mpc = "m_check"
    /\ IF global_sleep_mode
       THEN /\ SleepAndReset(MainThread)
            /\ mpc' = "m_sleep_and_reset"
       ELSE /\ mpc' = "m_wait"
            /\ UNCHANGED <<pool, lock, now, pc, ret>>
    /\ UNCHANGED <<request, status, task, taken_asleep, processed_count, error_count, all_results,
                   watchdog>>

\* sleep_and_reset from line 288 on; main goes on with the loop when it returns.
MainSleepAndReset ==
    /\ mpc = "m_sleep_and_reset"
    /\ SleepAndReset(MainThread)
    /\ mpc' = IF pc'[MainThread] = "idle" THEN "m_wait" ELSE mpc
    /\ UNCHANGED <<request, status, task, taken_asleep, processed_count, error_count, all_results,
                   watchdog>>

\* Lines 1128-1134.
MainSummary ==
    /\ mpc = "m_summary"
    /\ GetStats(MainThread)
    /\ mpc' = IF lock = NoThread THEN "m_done" ELSE mpc
    /\ UNCHANGED <<request, status, task, taken_asleep, processed_count, error_count, all_results,
                   watchdog>>

Main ==
    \/ MainStart
    \/ MainNextFuture
    \/ MainLoopEnd
    \/ MainProgress
    \/ MainCheck
    \/ MainSleepAndReset
    \/ MainSummary

\* A worker of the executor takes the repository at the head of the queue.
\* taken_asleep notes the repositories taken with global_sleep_mode set; one
\* that is finished with the flag cleared is struck from it.
TaskStart(t) ==
    /\ pc[t] = "idle"
    /\ task[t] = NoTask
    /\ \E f \in Tasks :
          /\ status[f] = "queued"
          /\ \A g \in Tasks : status[g] = "queued" => f <= g
          /\ task' = [task EXCEPT ![t] = f]
          /\ status' = [status EXCEPT ![f] = "running"]
          /\ taken_asleep' = IF global_sleep_mode
                             THEN taken_asleep \cup {f}
                             ELSE taken_asleep
    /\ invocations' = [invocations EXCEPT ![t] = 0]
    /\ UNCHANGED <<pool, lock, now, pc, ret, mr_token, attempt, pending, out, calls,
                   gets, only503, backoff, mpc, processed_count, error_count,
                   all_results, watchdog>>

\* process_repository (lines 620-774) calls _make_request, through
\* search_commits and get_commit_details, once or more.
TaskCall(t) ==
    /\ task[t] # NoTask
    /\ invocations[t] < MaxInvocations
    /\ MrCall(t)
    /\ UNCHANGED <<dispatch, watchdog>>

\* process_repository returns its results, or an exception leaves it; the
\* future is finished either way.  Of the last _make_request call the worker
\* keeps how it ended (out).
TaskEnd(t) ==
    /\ pc[t] = "idle"
    /\ task[t] # NoTask
    /\ invocations[t] >= 1
    /\ \E how \in {"returned", "raised"} :
          status' = [status EXCEPT ![task[t]] = how]
    /\ task' = [task EXCEPT ![t] = NoTask]
    /\ taken_asleep' = IF global_sleep_mode
                       THEN taken_asleep
                       ELSE taken_asleep \ {task[t]}
    /\ calls' = [calls EXCEPT ![t] = 0]
    /\ gets' = [gets EXCEPT ![t] = 0]
    /\ only503' = [only503 EXCEPT ![t] = TRUE]
    /\ backoff' = [backoff EXCEPT ![t] = 0]
    /\ UNCHANGED <<pool, lock, now, pc, ret, mr_token, attempt, pending, out,
                   invocations, mpc, processed_count, error_count, all_results,
                   watchdog>>

\* Variant in which a worker between two repositories calls sleep_and_reset:
WorkerSleeps(t) ==
    \/ t \in PoolWorkers /\ TaskStart(t)
    \/ t \in PoolWorkers /\ TaskCall(t)
    \/ t \in PoolWorkers /\ MakeRequest(t) /\ UNCHANGED <<dispatch, watchdog>>
    \/ t \in PoolWorkers /\ TaskEnd(t)
    \/ /\ t \in PoolWorkers /\ task[t] = NoTask /\ global_sleep_mode
       /\ SleepAndReset(t) /\ UNCHANGED ext

\* One step of thread t as a worker of the executor, if it is one.
Worker(t) ==
    \/ t \in PoolWorkers /\ TaskStart(t)
    \/ t \in PoolWorkers /\ TaskCall(t)
    \/ t \in PoolWorkers /\ MakeRequest(t) /\ UNCHANGED <<dispatch, watchdog>>
    \/ t \in PoolWorkers /\ TaskEnd(t)

\* The environment names between 0 and MaxTokens tokens; everything else is
\* as Init has it.
InitMain ==
    /\ \E n \in 0 .. MaxTokens : tokens = [i \in 1 .. n |-> i]
    /\ remaining = [k \in TokenIds |-> Ceiling]
    /\ reset_time = [k \in TokenIds |-> None]
    /\ requests = [k \in TokenIds |-> 0]
    /\ current_index = 0
    /\ global_sleep_mode = FALSE
    /\ lock = NoThread
    /\ now = 0
    /\ pc = [t \in Threads \cup {MainThread} |-> "idle"]
    /\ ret = NoRet
    /\ mr_token = [t \in Threads |-> NoToken]
    /\ attempt = [t \in Threads |-> 0]
    /\ pending = [t \in Threads |-> NoResponse]
    /\ out = [t \in Threads |-> "none"]
    /\ calls = [t \in Threads |-> 0]
    /\ gets = [t \in Threads |-> 0]
    /\ only503 = [t \in Threads |-> TRUE]
    /\ invocations = [t \in Threads |-> 0]
    /\ backoff = [t \in Threads |-> 0]
    /\ mpc = "m_start"
    /\ status = [f \in Tasks |-> "new"]
    /\ task = [t \in Threads |-> NoTask]
    /\ taken_asleep = {}
    /\ processed_count = 0
    /\ error_count = 0
    /\ all_results = << >>
    /\ wpc = "w_run"
    /\ last_count = 0
    /\ hang_checks = 0
    /\ stop_event = FALSE
    /\ checks = << >>
    /\ enabled = FALSE
    /\ sent = "none"

NextMain ==
    \/ Main
    \/ \E t \in Threads : Worker(t)
SpecMain == InitMain /\ [][NextMain]_vars

\* Every thread that can take a step takes one in the end: main, and each
\* worker of the executor.
FairMain ==
    SpecMain /\ WF_vars(Main) /\ \A t \in Threads : WF_vars(Worker(t))

\* A thread that is inside a call keeps running: the interpreter schedules
\* every runnable thread again and again.  Nothing obliges an idle thread to
\* make another call, nor the clock to advance.
Continue(t) == pc[t] # "idle" /\ Step(t)
FairSpec == Spec /\ \A t \in Threads : WF_vars(Continue(t))

\* ------------------------------------------------- DiscordNotifier.send
\* What requests.post and raise_for_status (lines 361-362) can do: the webhook
\* answers with a 2xx status, it answers with an error status
\* (raise_for_status raises HTTPError), or requests.post itself raises.
Transports == {"ok", "http_error", "exception"}

\* DiscordNotifier.send (lines 345-366) against the transport behaviour tr:
\* how the call ended for the webhook ("skipped", "delivered", "failed") and
\* whether an exception left it.
\* Variant without the try/except around the post:
SendUncaught(tr) ==
    IF ~enabled THEN [outcome |-> "skipped", raised |-> FALSE]
    ELSE IF tr = "ok" THEN [outcome |-> "delivered", raised |-> FALSE]
    ELSE [outcome |-> "failed", raised |-> TRUE]

Send(tr) ==
    IF ~enabled THEN [outcome |-> "skipped", raised |-> FALSE]
    ELSE IF tr = "ok" THEN [outcome |-> "delivered", raised |-> FALSE]
    ELSE [outcome |-> "failed", raised |-> FALSE]

\* --------------------------------------------------------- watchdog_thread
\* watchdog_thread (lines 945-977), one pass of its loop per step: the
\* sleep of two minutes, the test of the stop event, the reading of
\* processed_count_ref['count'] (which main sets to processed_count at line
\* 1051, in the statement after the one that counts) and what follows from
\* it.  checks records the pass: the count read and whether notifier.send was
\* called.  An exception that leaves notifier.send ends the thread
\* ("w_dead").
\* Variant that keeps hang_checks after the alert:
WatchdogCheckNoReset ==
    /\ wpc = "w_run"
    /\ IF stop_event
       THEN /\ wpc' = "w_done"
            /\ UNCHANGED <<last_count, hang_checks, checks, sent>>
       ELSE /\ Len(checks) < MaxChecks
            /\ LET current_count == processed_count
               IN  IF current_count > last_count
                   THEN /\ hang_checks' = 0
                        /\ last_count' = current_count
                        /\ checks' = Append(checks, [count |-> current_count,
                                                     alert |-> FALSE])
                        /\ UNCHANGED <<wpc, sent>>
                   ELSE IF hang_checks + 1 >= HangLimit
                   THEN \E tr \in Transports :
                           /\ sent' = Send(tr).outcome
                           /\ checks' = Append(checks, [count |-> current_count,
                                                        alert |-> TRUE])
                           /\ hang_checks' = hang_checks + 1
                           /\ wpc' = IF Send(tr).raised THEN "w_dead" ELSE wpc
                           /\ last_count' = last_count
                   ELSE /\ hang_checks' = hang_checks + 1
                        /\ checks' = Append(checks, [count |-> current_count,
                                                     alert |-> FALSE])
                        /\ UNCHANGED <<wpc, last_count, sent>>
    /\ UNCHANGED <<pool, lock, now, pc, ret, request, dispatch, stop_event, enabled>>

\* Variant that withdraws the repositories still queued when it alerts:
WatchdogCheckCancelsQueued ==
    /\ wpc = "w_run"
    /\ IF stop_event
       THEN /\ wpc' = "w_done"
            /\ UNCHANGED <<last_count, hang_checks, checks, sent, status>>
       ELSE /\ Len(checks) < MaxChecks
            /\ LET current_count == processed_count
               IN  IF current_count > last_count
                   THEN /\ hang_checks' = 0
                        /\ last_count' = current_count
                        /\ checks' = Append(checks, [count |-> current_count,
                                                     alert |-> FALSE])
                        /\ UNCHANGED <<wpc, sent, status>>
                   ELSE IF hang_checks + 1 >= HangLimit
                   THEN \E tr \in Transports :
                           /\ sent' = Send(tr).outcome
                           /\ checks' = Append(checks, [count |-> current_count,
                                                        alert |-> TRUE])
                           /\ IF Send(tr).raised
                              THEN /\ wpc' = "w_dead"
                                   /\ hang_checks' = hang_checks + 1
                              ELSE /\ wpc' = wpc
                                   /\ hang_checks' = 0
                           /\ last_count' = last_count
                           /\ status' = [f \in Tasks |->
                                            IF status[f] = "queued" THEN "raised"
                                            ELSE status[f]]
                   ELSE /\ hang_checks' = hang_checks + 1
                        /\ checks' = Append(checks, [count |-> current_count,
                                                     alert |-> FALSE])
                        /\ UNCHANGED <<wpc, last_count, sent, status>>
    /\ UNCHANGED <<pool, lock, now, pc, ret, request, mpc, task, taken_asleep,
                   processed_count, error_count, all_results, stop_event, enabled>>

WatchdogCheck ==
    /\ wpc = "w_run"
    /\ IF stop_event
       THEN /\ wpc' = "w_done"
            /\ UNCHANGED <<last_count, hang_checks, checks, sent>>
       ELSE /\ Len(checks) < MaxChecks
            /\ LET current_count == processed_count
               IN  IF current_count > last_count
                   THEN /\ hang_checks' = 0
                        /\ last_count' = current_count
                        /\ checks' = Append(checks, [count |-> current_count,
                                                     alert |-> FALSE])
                        /\ UNCHANGED <<wpc, sent>>
                   ELSE IF hang_checks + 1 >= HangLimit
                   THEN \E tr \in Transports :
                           /\ sent' = Send(tr).outcome
                           /\ checks' = Append(checks, [count |-> current_count,
                                                        alert |-> TRUE])
                           /\ IF Send(tr).raised
                              THEN /\ wpc' = "w_dead"
                                   /\ hang_checks' = hang_checks + 1
                              ELSE /\ wpc' = wpc
                                   /\ hang_checks' = 0
                           /\ last_count' = last_count
                   ELSE /\ hang_checks' = hang_checks + 1
                        /\ checks' = Append(checks, [count |-> current_count,
                                                     alert |-> FALSE])
                        /\ UNCHANGED <<wpc, last_count, sent>>
    /\ UNCHANGED <<pool, lock, now, pc, ret, request, dispatch, stop_event, enabled>>

\* The future of repository f finishes: process_repository (lines 620-774)
\* has returned, or an exception has left it.  What the worker did in between
\* is of no concern to main's loop and to the watchdog.
FutureDone(f) ==
    /\ status[f] = "queued"
    /\ \E how \in {"returned", "raised"} : status' = [status EXCEPT ![f] = how]
    /\ UNCHANGED <<pool, lock, now, pc, ret, request, mpc, task, taken_asleep, processed_count,
                   error_count, all_results, watchdog>>

\* main after watchdog.start() and the submits (lines 1025-1045): the
\* notifier is enabled or not, as the environment has it.
InitWatchdog ==
    /\ \E n \in 1 .. MaxTokens : tokens = [i \in 1 .. n |-> i]
    /\ remaining = [k \in TokenIds |-> Ceiling]
    /\ reset_time = [k \in TokenIds |-> None]
    /\ requests = [k \in TokenIds |-> 0]
    /\ current_index = 0
    /\ global_sleep_mode = FALSE
    /\ lock = NoThread
    /\ now = 0
    /\ pc = [t \in Threads \cup {MainThread} |-> "idle"]
    /\ ret = NoRet
    /\ mr_token = [t \in Threads |-> NoToken]
    /\ attempt = [t \in Threads |-> 0]
    /\ pending = [t \in Threads |-> NoResponse]
    /\ out = [t \in Threads |-> "none"]
    /\ calls = [t \in Threads |-> 0]
    /\ gets = [t \in Threads |-> 0]
    /\ only503 = [t \in Threads |-> TRUE]
    /\ invocations = [t \in Threads |-> 0]
    /\ backoff = [t \in Threads |-> 0]
    /\ mpc = "m_wait"
    /\ status = [f \in Tasks |-> "queued"]
    /\ task = [t \in Threads |-> NoTask]
    /\ taken_asleep = {}
    /\ processed_count = 0
    /\ error_count = 0
    /\ all_results = << >>
    /\ wpc = "w_run"
    /\ last_count = 0
    /\ hang_checks = 0
    /\ stop_event = FALSE
    /\ checks = << >>
    /\ enabled \in BOOLEAN
    /\ sent = "none"

\* The watchdog next to main's loop, with the futures finishing when they
\* finish.
NextWatchdog ==
    \/ WatchdogCheck
    \/ \E f \in Tasks : FutureDone(f)
    \/ MainNextFuture
    \/ MainProgress
    \/ MainCheck
    \/ MainLoopEnd
SpecWatchdog == InitWatchdog /\ [][NextWatchdog]_vars

\* ======================================================================
\* Properties
\* ======================================================================
\* The availability predicate as the specification words it.
SpecAvailable(k) ==
    /\ remaining[k] > LowWaterMark
    /\ reset_time[k] = None \/ now >= reset_time[k][1]
\* A token whose quota is above the reserve.
AboveReserve(k) == remaining[k] > LowWaterMark
\* A token whose reset time is still ahead.
ResetAhead(k) == reset_time[k] # None /\ now < reset_time[k][1]
\* Threads inside sleep_and_reset after line 285 found the flag set.
InRecovery == {t \in Threads : pc[t] \in {"sr_lock", "sr_get_stats", "sr_notify",
                                          "sr_sleep", "sr_reset", "sr_resume"}}
Sleepers == {t \in Threads : pc[t] = "sr_sleep"}
PoolReset ==
    /\ ~global_sleep_mode
    /\ \A k \in TokenIds : remaining[k] = Ceiling /\ reset_time[k] = None

\* C1: when two or more threads are inside sleep_and_reset with the flag set,
\* exactly one of them comes to perform the recovery sleep while the others
\* have returned.
C1_OneSleeperOthersReturn ==
    (Cardinality({t \in Threads : pc[t] = "sr_lock"}) >= 2)
        ~> (Cardinality(Sleepers) = 1 /\ InRecovery = Sleepers)

\* C2: a sleep_and_reset call that found global_sleep_mode set eventually
\* returns.
C2_SleepAndResetReturns ==
    \A t \in Threads : (pc[t] = "sr_lock") ~> (pc[t] = "idle")

\* C3: a sleep_and_reset call entered with the pool exhausted returns with
\* global_sleep_mode false and every token at remaining = 5000, reset_time
\* None.
C3_ReturnsWithPoolReset ==
    \A t \in Threads : (pc[t] = "sr_lock") ~> (pc[t] = "idle" /\ PoolReset)

\* C4: get_token never raises and returns a member of the token list.
C4_GetTokenReturnsPoolMember ==
    ret.op = "get_token" => ret.path # "raise" /\ ret.tok \in TokenIds
\* get_token has returned while no token was available.
C4_Witness ==
    /\ ret.op = "get_token" /\ ret.path = "fallback"
    /\ \A k \in TokenIds : ~AboveReserve(k)

\* C5: every get_token call that waits for the pool lock obtains it and
\* returns.
C5_GetTokenObtainsLock ==
    \A t \in Threads : (pc[t] = "get_token") ~> (pc[t] = "idle")

\* C6 as claimed: whenever some token satisfies the availability predicate
\* when get_token runs, the token it returns satisfies it.
C6_ReturnsAvailableAlways ==
    (ret.op = "get_token" /\ \E k \in TokenIds : AboveReserve(k))
        => AboveReserve(ret.tok)
\* C6 as amended: the same for every get_token call that runs while
\* global_sleep_mode is false.
C6_ReturnsAvailableUnlessSleepMode ==
    (ret.op = "get_token" /\ ret.path # "sleep" /\ \E k \in TokenIds : AboveReserve(k))
        => AboveReserve(ret.tok)
\* get_token passed over an unavailable token and returned another one.
C6_Witness ==
    /\ ret.op = "get_token" /\ ret.path = "primary"
    /\ \E k \in TokenIds : ~AboveReserve(k) /\ ret.tok # k

\* C7 as claimed: global_sleep_mode is true iff no token satisfies the
\* availability predicate.
C7_FlagIffNoneAvailable ==
    global_sleep_mode <=> ~\E k \in TokenIds : SpecAvailable(k)
\* C7 as amended: a step that raises global_sleep_mode leaves no token with
\* remaining above the reserve, hence none that satisfies the predicate.
C7_FlagRaisedOnlyWhenNoneAvailable ==
    [][(~global_sleep_mode /\ global_sleep_mode')
           => \A k \in TokenIds : remaining'[k] <= LowWaterMark]_vars
\* The flag has just been raised by get_token's fallback.
C7_Witness ==
    /\ global_sleep_mode /\ ret.op = "get_token" /\ ret.path = "fallback"
    /\ \A k \in TokenIds : ~SpecAvailable(k)

\* C8: all_tokens_exhausted returns true exactly when no token satisfies
\* _is_token_available.
C8_ExhaustedIffNoneAvailable ==
    ret.op = "all_tokens_exhausted"
        => (ret.val <=> ~\E k \in TokenIds : AboveReserve(k))
\* all_tokens_exhausted returned false with one token unavailable and one
\* available.
C8_Witness ==
    /\ ret.op = "all_tokens_exhausted" /\ ~ret.val
    /\ ~AboveReserve(TokenAt(0))
    /\ \E k \in TokenIds : AboveReserve(k)

\* C9 as claimed: _is_token_available(t) iff remaining > 10 and (reset_time
\* is None or now >= reset_time).
C9_AvailableIffQuotaAndReset ==
    \A k \in TokenIds : IsTokenAvailable(k) <=> SpecAvailable(k)
\* C9 as amended: _is_token_available(t) iff remaining > 10, whatever
\* reset_time is.
C9_AvailableIffQuota ==
    \A k \in TokenIds : IsTokenAvailable(k) <=> remaining[k] > LowWaterMark
\* get_token handed out a token whose quota is above the reserve and whose
\* reset time is still ahead.
C9_Witness ==
    /\ ret.op = "get_token" /\ ret.path = "primary"
    /\ AboveReserve(ret.tok) /\ ResetAhead(ret.tok)

\* C10: a token whose remaining is at or below the reserve and whose reset
\* time is still ahead is not returned by the first or the second pass.
C10_ExcludedUntilReset ==
    [][\A c \in TokenIds :
          (~AboveReserve(c) /\ ResetAhead(c) /\ requests'[c] # requests[c])
              => ret'.path \notin {"primary", "borrow"}]_vars
\* After update_rate_limit(c, 0, reset ahead) get_token passed over c.
C10_Witness ==
    /\ ret.op = "get_token" /\ ret.path = "primary"
    /\ \E c \in TokenIds : remaining[c] = 0 /\ ResetAhead(c) /\ ret.tok # c

\* A step in which a get_token call runs its body and returns.
GetTokenReturns == \E t \in Threads : lock = NoThread /\ GetToken(t)

\* C11 as claimed: every get_token call adds exactly one to the requests
\* counter of the token it returns, on every return path.
C11_EveryReturnCounts ==
    [][GetTokenReturns
          => requests' = [requests EXCEPT ![ret'.tok] = requests[ret'.tok] + 1]]_vars
\* C11 as amended: a get_token call that runs while global_sleep_mode is
\* false adds exactly one to the requests counter of the token it returns and
\* changes no other counter; a call that finds global_sleep_mode set changes no
\* counter.
C11_ReturnCountsUnlessSleepMode ==
    [][GetTokenReturns
          => IF global_sleep_mode
             THEN requests' = requests
             ELSE requests' = [requests EXCEPT ![ret'.tok] = requests[ret'.tok] + 1]]_vars
\* The fallback counted its request and a later call in sleep mode did not.
C11_Witness ==
    /\ ret.op = "get_token" /\ ret.path = "sleep"
    /\ requests[TokenAt(0)] = 1
    /\ \A k \in TokenIds : ~AboveReserve(k)

\* C12: a get_token call that finds no token satisfying
\* _is_token_available leaves global_sleep_mode true and returns tokens[0].
C12_NoneAvailableFlagAndFirst ==
    [][(GetTokenReturns /\ \A k \in TokenIds : remaining[k] <= LowWaterMark)
          => global_sleep_mode' /\ ret'.tok = tokens[1]]_vars
\* With two tokens, both at or below the reserve, get_token raised the flag
\* and returned the first one.
C12_Witness ==
    /\ NumTokens = 2 /\ \A k \in TokenIds : remaining[k] <= LowWaterMark
    /\ ret.op = "get_token" /\ ret.path = "fallback" /\ ret.tok = tokens[1]
    /\ global_sleep_mode

\* C13: when an attempt of _make_request met a rate-limit response and at
\* least two tokens are above the reserve, the token get_token hands to the
\* next attempt differs from the token of the failed attempt, whatever other
\* workers' get_token calls come in between.
C13_NextAttemptOtherToken ==
    [][\A t \in PoolWorkers :
          (/\ pc[t] = "mr_get_token" /\ pc'[t] = "mr_request"
           /\ out[t] = "rate_limited"
           /\ Cardinality({k \in TokenIds : remaining[k] > LowWaterMark}) >= 2)
              => mr_token'[t] # mr_token[t]]_vars

\* A step in which thread t returns from _make_request.
MrReturns(t) == pc[t] # "idle" /\ pc'[t] = "idle"

\* C14 as claimed: a _make_request call all of whose responses were 503
\* returns after exactly max_retries network calls, with the transient
\* failure.
C14_Only503ExactlyMaxRetries ==
    [][\A t \in PoolWorkers :
          (MrReturns(t) /\ only503'[t] /\ calls'[t] >= 1)
              => calls'[t] = MaxRetries /\ out'[t] = "transient"]_vars
\* C14 as amended: the same for a call that no attempt ended at line 398
\* because it found global_sleep_mode set; and no call makes more than
\* max_retries network calls.
C14_Only503ExactlyMaxRetriesUnlessSleepMode ==
    [][\A t \in PoolWorkers :
          /\ calls'[t] <= MaxRetries
          /\ (MrReturns(t) /\ only503'[t] /\ calls'[t] >= 1 /\ out'[t] # "sleep_mode")
                => calls'[t] = MaxRetries /\ out'[t] = "transient"]_vars
\* A call returned the transient failure after five 503 responses.
C14_Witness ==
    \E t \in PoolWorkers :
        /\ pc[t] = "idle" /\ out[t] = "transient"
        /\ only503[t] /\ calls[t] = MaxRetries /\ gets[t] = MaxRetries

\* A response with a 4xx status that is not a rate-limit signal (429, or 403
\* with "rate limit" in its text).
TerminalClientError(r) ==
    /\ r.kind = "response"
    /\ 400 <= r.status /\ r.status < 500
    /\ r.status # 429
    /\ ~(r.status = 403 /\ r.rate_limit_text)

\* C15: the step in which _make_request receives a 404, or another 4xx that is
\* not a rate-limit signal, is its last: it returns the failure, having called
\* get_token and session.request no further.
C15_ClientErrorIsTerminal ==
    [][\A t \in PoolWorkers :
          (pc[t] = "mr_request" /\ calls'[t] # calls[t])
              => \A r \in Responses :
                    (TerminalClientError(r) /\ MrReceive(t, r))
                        => /\ pc'[t] = "idle"
                           /\ out'[t] \in {"not_found", "client_error", "forbidden"}
                           /\ gets'[t] = gets[t]
                           /\ calls'[t] = calls[t] + 1]_vars
\* A call returned on a 404 met by its second attempt.
C15_Witness ==
    \E t \in PoolWorkers :
        /\ pc[t] = "idle" /\ out[t] = "not_found"
        /\ calls[t] = 2 /\ gets[t] = 2

\* C16: with at least one token, main comes to the end of its as_completed
\* loop (every future finished and handed over) and to the statements that
\* save and report the results.
C16_RunCompletes ==
    (NumTokens >= 1) ~> (mpc \in {"m_summary", "m_done"})

\* How a worker's last _make_request call ended when the pool was exhausted.
ExhaustedOutcomes == {"sleep_mode", "all_exhausted"}

\* C17: a worker whose task ended on an exhausted pool starts its next task
\* only after the recovery of sleep_and_reset, which clears
\* global_sleep_mode.
C17_NoNextTaskBeforeRecovery ==
    [][\A t \in PoolWorkers :
          (task[t] = NoTask /\ task'[t] # NoTask /\ out[t] \in ExhaustedOutcomes)
              => ~global_sleep_mode]_vars

\* The futures as_completed has handed over, and how often repository f is
\* in all_results.
Consumed == {f \in Tasks : status[f] = "consumed"}
TimesIn(f, results) == Cardinality({i \in 1 .. Len(results) : results[i] = f})

\* C18: every finished future is handed over once, processed_count goes up by
\* one with it and never otherwise, it equals the number of repositories after
\* the loop, and a repository's results are in all_results once if its task
\* returned and never twice.
C18_EachTaskCountedOnce ==
    [][/\ \A f \in Tasks :
            /\ status[f] = "consumed" => status'[f] = "consumed"
            /\ status[f] \in {"returned", "raised"} => status'[f] \in {status[f], "consumed"}
            /\ TimesIn(f, all_results') =
                  TimesIn(f, all_results)
                    + (IF status[f] = "returned" /\ status'[f] = "consumed" THEN 1 ELSE 0)
       /\ processed_count' =
            processed_count
              + Cardinality({f \in Tasks : status[f] # "consumed" /\ status'[f] = "consumed"})
       /\ processed_count' \in {processed_count, processed_count + 1}
       /\ mpc' \in {"m_summary", "m_done"} => processed_count' = NumTasks]_vars
\* The loop has ended with both repositories' results collected.
C18_Witness ==
    /\ mpc = "m_done" /\ processed_count = NumTasks
    /\ \A f \in Tasks : TimesIn(f, all_results) = 1

\* C19: when future.result() raises, error_count goes up by one, the
\* repository is counted in processed_count, main stays in the loop and the
\* other futures stand as they stood; error_count changes in no other step.
C19_TaskExceptionCaught ==
    [][/\ \A f \in Tasks :
            (status[f] = "raised" /\ status'[f] = "consumed")
               => /\ error_count' = error_count + 1
                  /\ processed_count' = processed_count + 1
                  /\ mpc' = "m_wait"
                  /\ all_results' = all_results
                  /\ \A g \in Tasks \ {f} : status'[g] = status[g]
       /\ error_count' # error_count
            => \E f \in Tasks : status[f] = "raised" /\ status'[f] = "consumed"]_vars
\* The first repository's task raised, the second one's results were
\* collected afterwards and main came through the loop.
C19_Witness ==
    /\ mpc = "m_done" /\ error_count = 1 /\ processed_count = NumTasks
    /\ all_results = <<NumTasks>>

\* C20: without tokens main ends at TokenManager(): no repository is
\* submitted, no worker runs, no network call is made; with tokens main does
\* not end there.
C20_NoTokensNoDispatch ==
    /\ NumTokens = 0 =>
          /\ mpc \in {"m_start", "m_aborted"}
          /\ \A f \in Tasks : status[f] = "new"
          /\ \A t \in Threads : task[t] = NoTask /\ pc[t] = "idle" /\ calls[t] = 0
    /\ mpc = "m_aborted" => NumTokens = 0
\* main ended at TokenManager() with nothing submitted.
C20_Witness ==
    /\ NumTokens = 0 /\ mpc = "m_aborted"
    /\ \A f \in Tasks : status[f] = "new"

\* Check i of the watchdog read a count no greater than the check before it
\* (the first check: no greater than 0).
NoIncrease(i) == checks[i].count <= (IF i = 1 THEN 0 ELSE checks[i - 1].count)
\* The checks at which the watchdog called notifier.send with its alert.
Alerts == {i \in 1 .. Len(checks) : checks[i].alert}

\* C21: the watchdog sends its alert at a check exactly when that check is the
\* tenth in a row without an increase of the count and without an alert in
\* between; after an alert and after a check that saw progress hang_checks is
\* 0; two alerts are at least 10 checks apart.
C21_AlertEveryTenStalls ==
    /\ \A n \in 1 .. Len(checks) :
          checks[n].alert <=>
              /\ n >= 10
              /\ \A i \in (n - 9) .. n : NoIncrease(i)
              /\ \A i \in (n - 9) .. (n - 1) : ~checks[i].alert
    /\ (Len(checks) > 0 /\ (checks[Len(checks)].alert \/ ~NoIncrease(Len(checks))))
          => hang_checks = 0
    /\ \A i, j \in Alerts : i < j => j - i >= 10
\* The watchdog saw progress, then sent an alert and, ten checks later, a
\* second one.
C21_Witness ==
    /\ \E i, j \in Alerts : i < j /\ ~NoIncrease(1)
    /\ hang_checks = 0

\* A step in which a token's stats are reset by sleep_and_reset.
RecoveryReset ==
    \E t \in Threads \cup {MainThread} : pc[t] = "sr_reset" /\ pc'[t] = "sr_resume"

\* C22: but for the reset of sleep_and_reset, no step raises a token's
\* remaining: every update_rate_limit leaves it at or below what it was.
C22_RemainingNeverIncreases ==
    [][~RecoveryReset => \A k \in TokenIds : remaining'[k] <= remaining[k]]_vars

\* Where a thread is while it issues a network call (with the pacing delay
\* before it and the backoff sleep after it), sends a notification or sleeps.
Unlocked == {"mr_request", "mr_update", "sr_notify", "sr_sleep", "sr_resume"}

\* C23: the thread that holds the pool lock is not issuing a network call,
\* sending a notification or sleeping; it is in the check section of
\* sleep_and_reset, the TokenManager methods taking and releasing the lock
\* within their step.
C23_NoLockAcrossNetworkOrSleep ==
    \A t \in Threads \cup {MainThread} :
        lock = t => pc[t] \notin Unlocked /\ pc[t] = "sr_get_stats"
\* A worker is issuing its network call while main holds the lock in the check
\* section of sleep_and_reset.
C23_Witness ==
    /\ lock = MainThread
    /\ \E t \in PoolWorkers : pc[t] = "mr_request" /\ calls[t] >= 1

\* C24: a notifier.send call whose transport fails returns to its caller, here
\* the watchdog, which goes on to reset hang_checks and stays in its loop; the
\* step leaves the pool, main's state and the rest of the watchdog's state as
\* they were.
C24_SendFailureContained ==
    [][(Len(checks') > Len(checks) /\ checks'[Len(checks')].alert)
          => /\ wpc' = "w_run"
             /\ hang_checks' = 0
             /\ sent' \in {"skipped", "delivered", "failed"}
             /\ UNCHANGED <<pool, lock, pc, dispatch, last_count, stop_event, enabled>>]_vars
\* The webhook failed on the alert, and the watchdog has made further checks
\* since.
C24_Witness ==
    /\ sent = "failed" /\ wpc = "w_run"
    /\ \E i \in Alerts : i < Len(checks)

\* The index of the first token above the reserve at or after the cursor, in
\* the cyclic order of the list.
FirstFromCursor ==
    LET ds == {d \in 0 .. NumTokens - 1 :
                  AboveReserve(TokenAt((current_index + d) % NumTokens))}
        d0 == CHOOSE d \in ds : \A e \in ds : d <= e
    IN  (current_index + d0) % NumTokens
\* No token's quota has been reported yet: all are at the ceiling.
AllUntouched ==
    ~global_sleep_mode /\ \A k \in TokenIds : reset_time[k] = None /\ AboveReserve(k)
\* Of c calls served in turn from the head of the list, those the token at
\* index i served.
TurnsOf(i, c) == (c \div NumTokens) + (IF i < c % NumTokens THEN 1 ELSE 0)

\* C25: a get_token call that runs with global_sleep_mode false and some token
\* above the reserve returns the first such token at or after the cursor in
\* cyclic order and leaves the cursor one past it, modulo the number of tokens;
\* while every token is available, the calls so far are shared out in turn, so
\* that any N consecutive calls return each of the N tokens once.
C25_FirstAvailableFromCursor ==
    [][GetTokenReturns =>
          /\ (~global_sleep_mode /\ \E k \in TokenIds : AboveReserve(k))
                => /\ ret'.tok = TokenAt(FirstFromCursor)
                   /\ current_index' = (FirstFromCursor + 1) % NumTokens
          /\ AllUntouched'
                => \A i \in 0 .. NumTokens - 1 :
                      requests'[TokenAt(i)] = TurnsOf(i, TotalRequests')]_vars
\* Two calls on a pool of two untouched tokens have returned each token once,
\* the second token last, and the cursor is back at the first.
C25_Witness ==
    /\ NumTokens = 2 /\ AllUntouched
    /\ ret.op = "get_token" /\ ret.path = "primary" /\ ret.tok = TokenAt(1)
    /\ \A k \in TokenIds : requests[k] = 1
    /\ current_index = 0

\* C26: a get_token call whose first pass finds no available token leaves the
\* cursor where it was.
C26_CursorKeptWhenNoneFound ==
    [][(GetTokenReturns /\ ~global_sleep_mode /\ \A k \in TokenIds : ~AboveReserve(k))
          => current_index' = current_index]_vars
\* The fallback has run with the cursor on the second of two tokens.
C26_Witness ==
    /\ NumTokens = 2 /\ current_index = 1
    /\ ret.op = "get_token" /\ ret.path = "fallback"

\* C27: an attempt of _make_request that starts with global_sleep_mode set
\* ends the call there, with the exhausted outcome and without a get_token
\* call or a network call.
C27_ShortCircuitInSleepMode ==
    [][\A t \in PoolWorkers :
          (pc[t] = "mr_check" /\ global_sleep_mode /\ pc'[t] # "mr_check")
              => /\ pc'[t] = "idle"
                 /\ out'[t] = "sleep_mode"
                 /\ gets'[t] = gets[t]
                 /\ calls'[t] = calls[t]
                 /\ requests' = requests]_vars
\* A call has ended at the head of its third attempt, the flag having been
\* raised after the first two were made.
C27_Witness ==
    \E t \in PoolWorkers :
        /\ pc[t] = "idle" /\ out[t] = "sleep_mode"
        /\ gets[t] = 2 /\ calls[t] = 2

\* A response that signals rate limiting: status 403 or 429 with "rate limit"
\* in its text.
RateLimitSignal(r) ==
    r.kind = "response" /\ r.status \in {403, 429} /\ r.rate_limit_text

\* C28: a 403 or 429 response that signals rate limiting is taken as
\* rate-limited and never as a client error; the call then returns the
\* exhausted outcome if no token is available and goes on to its next attempt
\* otherwise.
C28_RateLimitSignalNotClientError ==
    [][\A t \in PoolWorkers :
          /\ (pc[t] = "mr_request" /\ calls'[t] # calls[t])
                => \A r \in Responses :
                      (RateLimitSignal(r) /\ MrReceive(t, r))
                          => /\ pc'[t] \in {"mr_rate_limited", "mr_update"}
                             /\ out'[t] # "client_error"
          /\ (pc[t] = "mr_rate_limited" /\ pc'[t] # "mr_rate_limited")
                => IF \A k \in TokenIds : ~AboveReserve(k)
                   THEN pc'[t] = "idle" /\ out'[t] = "all_exhausted"
                   ELSE attempt[t] < 4
                           => pc'[t] = "mr_check" /\ attempt'[t] = attempt[t] + 1]_vars

\* A transient failure: a 502, 503 or 504 response, a timeout or a connection
\* error.
Transient(r) ==
    \/ r.kind \in {"Timeout", "ConnectionError"}
    \/ r.kind = "response" /\ r.status \in {502, 503, 504}

\* C29: after a transient failure on attempt k that is not the last attempt,
\* _make_request sleeps the k-th entry of 2, 5, 10, 20, 30 seconds and goes on
\* to attempt k + 1; after one on the last attempt it returns the transient
\* failure without a backoff sleep.
C29_BackoffScheduleNoneOnLast ==
    [][\A t \in PoolWorkers :
          (pc[t] = "mr_request" /\ calls'[t] # calls[t] /\ pc'[t] # "mr_update")
              => \A r \in Responses \cup Exceptions :
                    (Transient(r) /\ MrReceive(t, r))
                        => IF attempt[t] < 4
                           THEN /\ backoff'[t] = <<2, 5, 10, 20, 30>>[attempt[t] + 1]
                                /\ pc'[t] = "mr_check"
                                /\ attempt'[t] = attempt[t] + 1
                           ELSE /\ pc'[t] = "idle"
                                /\ out'[t] = "transient"
                                /\ backoff'[t] = 0]_vars

\* What the claim says a response r with quota headers, received by thread t,
\* leaves of the pool: the stats of the token used hold the reported values,
\* nothing else has changed.
QuotaRecorded(t, r) ==
    /\ remaining' = [remaining EXCEPT ![mr_token[t]] = r.remaining]
    /\ reset_time' = [reset_time EXCEPT ![mr_token[t]] = <<r.reset>>]
    /\ UNCHANGED <<tokens, requests, current_index, global_sleep_mode>>

\* C30: the step in which _make_request takes in a response with quota
\* headers, whatever its status, leaves the reported remaining and reset
\* values in the stats of the token used for the call, and leaves the other
\* tokens' stats, the requests counters, the cursor and the flag as they were.
C30_QuotaRecordedWhateverStatus ==
    [][\A t \in PoolWorkers :
          /\ (pc[t] = "mr_request" /\ calls'[t] # calls[t] /\ pc'[t] # "mr_update")
                => \A r \in Responses :
                      (r.headers /\ MrReceive(t, r)) => QuotaRecorded(t, r)
          /\ (pc[t] = "mr_update" /\ pc'[t] # "mr_update")
                => QuotaRecorded(t, pending[t])]_vars
\* The first attempt was answered with a server error whose headers reported
\* the quota; the stats of the token used hold what they reported.
C30_Witness ==
    \E t \in PoolWorkers :
        /\ pc[t] = "mr_check" /\ out[t] = "retry" /\ calls[t] = 1
        /\ mr_token[t] # NoToken
        /\ remaining[mr_token[t]] = LowWaterMark
        /\ reset_time[mr_token[t]] = <<MaxTime>>

\* C31: a sleep_and_reset call made while global_sleep_mode is false returns
\* at once: the caller is back outside the method in the same step, it has not
\* taken the lock, nothing was sent, and tokens, remaining, reset_time,
\* requests, current_index and global_sleep_mode are what they were, so any
\* number of such calls leaves the pool as no call does.
C31_NoOpWhenFlagClear ==
    [][\A t \in Threads :
          (~global_sleep_mode /\ pc[t] = "idle" /\ SleepAndReset(t))
             => /\ pc'[t] = "idle"
                /\ ret'.op = "sleep_and_reset" /\ ret'.path = "fast"
                /\ UNCHANGED <<pool, lock, now, sent>>]_vars
\* Such a call has returned on a pool that get_token and update_rate_limit
\* have already changed.
C31_Witness ==
    /\ ret.op = "sleep_and_reset" /\ ret.path = "fast"
    /\ ~global_sleep_mode
    /\ TotalRequests >= 1
    /\ \E k \in TokenIds : remaining[k] # Ceiling

\* C32: a step of the watchdog changes nothing but its own last_count and
\* hang_checks (and what it sends): processed_count, the pool, the lock, the
\* threads' positions, the futures' statuses and the workers' tasks, main's
\* position and the stop event are left as they were.
C32_WatchdogOnlyObserves ==
    [][(checks' # checks \/ wpc' # wpc \/ hang_checks' # hang_checks
          \/ last_count' # last_count \/ sent' # sent)
          => UNCHANGED <<pool, lock, pc, processed_count, error_count, all_results,
                         status, task, mpc, stop_event>>]_vars
\* The watchdog has alerted while a repository was still queued and another
\* was finished but not yet counted.
C32_Witness ==
    /\ Len(checks) >= 1 /\ checks[Len(checks)].alert
    /\ \E f \in Tasks : status[f] = "queued"
    /\ \E f \in Tasks : status[f] \in {"returned", "raised"}
    /\ ~stop_event

\* C33: no thread asks for the pool lock while it holds it: a thread that
\* holds the lock is never at a call of a method that takes the lock.
C33_NoLockRequestWhileHeld ==
    \A t \in Threads : lock = t => pc[t] # "sr_get_stats"

\* C34: a _make_request call asks get_token at most max_retries times and
\* issues at most max_retries network calls, and a thread that is inside
\* _make_request comes out of it.
C34_BoundedAndReturns ==
    /\ [](\A t \in Threads : gets[t] <= MaxRetries /\ calls[t] <= MaxRetries)
    /\ \A t \in Threads : (pc[t] # "idle") ~> (pc[t] = "idle")

\* C35: global_sleep_mode goes from false to true only in a get_token call
\* that ends in the fallback of lines 231-236, and from true to false only in
\* the reset of sleep_and_reset (lines 312-319); an update_rate_limit call
\* leaves it as it is, whatever quota it records.
C35_FlagSetByFallbackClearedByReset ==
    [][/\ (~global_sleep_mode /\ global_sleep_mode')
            => GetTokenReturns /\ ret'.op = "get_token" /\ ret'.path = "fallback"
       /\ (global_sleep_mode /\ ~global_sleep_mode') => RecoveryReset
       /\ (\E t \in Threads : lock = NoThread /\ UpdateRateLimit(t))
            => global_sleep_mode' = global_sleep_mode]_vars
\* update_rate_limit has put a token above the reserve and the flag is still
\* set.
C35_Witness ==
    /\ global_sleep_mode
    /\ ret.op = "update_rate_limit"
    /\ \E k \in TokenIds : AboveReserve(k)

\* C36: a repository that a worker takes and finishes with global_sleep_mode
\* set all along costs no network call, and once its future has returned main
\* counts it.
C36_AsleepTaskEmptyAndCounted ==
    /\ [](\A t \in Threads : task[t] \in taken_asleep => calls[t] = 0)
    /\ \A f \in Tasks :
          (f \in taken_asleep /\ status[f] = "returned") ~> (status[f] = "consumed")

\* The threads, main among them, that are inside sleep_and_reset.
InSleepAndReset ==
    {t \in Threads \cup {MainThread} :
        pc[t] \in {"sr_lock", "sr_get_stats", "sr_notify", "sr_sleep", "sr_reset",
                   "sr_resume"}}

\* C37: no worker of the executor is ever inside sleep_and_reset, only main
\* is; so at most one call of it is in progress, and while one is,
\* processed_count keeps its value.
C37_OnlyMainSleepsAndResets ==
    /\ [](InSleepAndReset \subseteq {MainThread})
    /\ [](Cardinality(InSleepAndReset) <= 1)
    /\ [][InSleepAndReset # {} => processed_count' = processed_count]_vars
\* Main is inside sleep_and_reset after counting one repository, while the
\* worker has finished the other one.
C37_Witness ==
    /\ InSleepAndReset = {MainThread}
    /\ mpc = "m_sleep_and_reset"
    /\ processed_count = 1
    /\ \E f \in Tasks : status[f] = "returned"

\* C38: no get_token call returns from the second pass (lines 225-229): a
\* call that finds global_sleep_mode false either returns a token of the
\* first pass, which then is above the reserve, or finds no token above the
\* reserve and ends in the fallback.
C38_BorrowPassNeverReturns ==
    [][GetTokenReturns
          => /\ ret'.path # "borrow"
             /\ ~global_sleep_mode
                  => IF \E k \in TokenIds : AboveReserve(k)
                     THEN ret'.path = "primary" /\ AboveReserve(ret'.tok)
                     ELSE ret'.path = "fallback"]_vars
\* The fallback has run on two tokens after the first pass had once skipped the
\* first token and handed out the second.
C38_Witness ==
    /\ NumTokens = 2
    /\ ret.op = "get_token" /\ ret.path = "fallback"
    /\ requests[TokenAt(0)] = 1 /\ requests[TokenAt(1)] = 1
    /\ \A k \in TokenIds : ~AboveReserve(k)

\* C39: current_index is always an index of the token list,
\* 0 <= current_index < len(tokens), and no step changes the token list.
C39_CursorInRangeTokensFixed ==
    /\ [](current_index \in 0 .. NumTokens - 1)
    /\ [][tokens' = tokens]_vars
\* The first pass has skipped the first of two tokens, handed out the second
\* and wrapped the cursor back to the first.
C39_Witness ==
    /\ NumTokens = 2
    /\ ret.op = "get_token" /\ ret.path = "primary" /\ ret.tok = TokenAt(1)
    /\ ~AboveReserve(TokenAt(0)) /\ requests[TokenAt(0)] = 0
    /\ current_index = 0

====
